---------------------------- MODULE Spec2Model ----------------------------
(***************************************************************************)
(* A model of fbssdc's container layer (src/format.py: write, read) and of *)
(* its C++ macro generator (src/cpp_codegen.py: TypeVisitor,               *)
(* CppTypeMacroGenerator).                                                 *)
(*                                                                         *)
(* Two specifications share the module:                                    *)
(*   SpecGen  the type walker and the model id allocation of cpp_codegen,  *)
(*            over every small type graph rooted at Script;                *)
(*   Spec     write followed by read of format.py over small trees, shared *)
(*            dictionaries, collaborator failures and one-byte changes of  *)
(*            the stream.                                                  *)
(***************************************************************************)
EXTENDS Integers, Sequences, FiniteSets, TLC

(***************************************************************************)
(* Bounds of the model.                                                    *)
(***************************************************************************)
\* Number of interface, alternation and array types in a type graph handed to the
\* walker (Script is type 1); an enumeration, a primitive and the None type are
\* always part of it.
NumTypes == 2
\* Total number of attributes, variants and element types in a type graph.
MaxEdges == 3
\* Number of Script nodes in a tree handed to write.
MaxNodes == 3

(***************************************************************************)
(* Generic helpers.                                                        *)
(***************************************************************************)
Range(s) == {s[i] : i \in DOMAIN s}

RECURSIVE SumSeq(_)
SumSeq(s) == IF s = <<>> THEN 0 ELSE s[1] + SumSeq(Tail(s))

RECURSIVE Flatten(_)
Flatten(ss) == IF ss = <<>> THEN <<>> ELSE ss[1] \o Flatten(Tail(ss))

RECURSIVE SetToSeq(_)
SetToSeq(S) == IF S = {} THEN <<>>
               ELSE LET x == CHOOSE y \in S : TRUE IN <<x>> \o SetToSeq(S \ {x})

\* Injective sequences of length n over S.
InjSeqs(S, n) == {s \in [1..n -> S] : \A i, j \in 1..n : i # j => s[i] # s[j]}

(***************************************************************************)
(* cpp_codegen.py: the type universe (module idl, seen through the classes *)
(* the walker tests for: TyInterface, Alt, TyEnum, TyPrimitive,            *)
(* TyFrozenArray and TyNone).                                              *)
(***************************************************************************)
Script == 1
NoType == 0
CompositeIds == 1..NumTypes
EnumId == NumTypes + 1
PrimitiveId == NumTypes + 2
NoneId == NumTypes + 3
TypeIds == 1..(NumTypes + 3)

\* attr.name of the i-th attribute of an interface
AttrNames == <<"a1", "a2", "a3", "a4", "a5", "a6">>
ListLength == "list-length"

TyLeaf(k) == [kind |-> k, attrs |-> <<>>, tys |-> <<>>, element_ty |-> NoType]

TyInterface(targets) ==
  [kind |-> "TyInterface",
   attrs |-> [i \in DOMAIN targets |-> [name |-> AttrNames[i], resolved_ty |-> targets[i]]],
   tys |-> <<>>, element_ty |-> NoType]

Alt(members) == [kind |-> "Alt", attrs |-> <<>>, tys |-> members, element_ty |-> NoType]

TyFrozenArray(elem) ==
  [kind |-> "TyFrozenArray", attrs |-> <<>>, tys |-> <<>>, element_ty |-> elem]

\* The definitions a type of the graph may have when it owns exactly e edges.
\* resolver.interfaces['Script'] is an interface.
TypeDefs(id, e) ==
  {TyInterface(t) : t \in [1..e -> TypeIds]}
  \cup (IF id # Script /\ e = 1 THEN {TyFrozenArray(t) : t \in TypeIds} ELSE {})
  \cup (IF id # Script /\ e >= 2 THEN {Alt(m) : m \in InjSeqs(TypeIds, e)} ELSE {})

LeafTypes == <<TyLeaf("TyEnum"), TyLeaf("TyPrimitive"), TyLeaf("TyNone")>>

\* The types visit recurses into, in the order of its loops.
Children(schema, ty) ==
  LET d == schema[ty] IN
  CASE d.kind = "TyInterface" -> [i \in DOMAIN d.attrs |-> d.attrs[i].resolved_ty]
    [] d.kind = "Alt" -> d.tys
    [] d.kind = "TyFrozenArray" -> <<d.element_ty>>
    [] OTHER -> <<>>

RECURSIVE ReachableFrom(_, _, _)
ReachableFrom(schema, seen, frontier) ==
  IF frontier = {} THEN seen
  ELSE LET next == UNION {Range(Children(schema, t)) : t \in frontier}
       IN ReachableFrom(schema, seen \cup frontier, next \ (seen \cup frontier))

Reachable(schema) == ReachableFrom(schema, {}, {Script})

EdgeCount(schema) == SumSeq([t \in DOMAIN schema |-> Len(Children(schema, t))])

VARIABLES
  resolver,        \* TypeVisitor.resolver: the type graph
  gpc,             \* position of the generator: "init", "visiting", "done"
  visited_types,   \* TypeVisitor.visited_types
  stack,           \* the activations of visit: [ty, i], i = 0 on entry
  interfaces, alts, enums, primitives, frozen_arrays,
  model_ids, next_model_id,
  ret,             \* what the last _get_insert_model_id call saw and returned
  requeried,       \* _get_insert_model_id was called once more after generate
  calls,           \* the visit_* callbacks run so far: [cb, ty]
  nvisit           \* number of visit activations started

gvars == <<resolver, gpc, visited_types, stack, interfaces, alts, enums, primitives,
           frozen_arrays, model_ids, next_model_id, ret, requeried, calls, nvisit>>

NoRet == [k |-> <<NoType, "">>, present |-> FALSE, model_id |-> -1, next_before |-> 0,
          ids_before |-> <<>>]

NoIds == [k \in {} |-> 0]

\* _get_insert_model_id without the membership test: a new id on every call.
GetInsertAlwaysNew(mids, next, k) ==
  [model_ids |-> [x \in DOMAIN mids \cup {k} |-> IF x = k THEN next ELSE mids[x]],
   next_model_id |-> next + 1, model_id |-> next]

\* CppTypeMacroGenerator._get_insert_model_id
GetInsertModelId(mids, next, k) ==
  IF k \in DOMAIN mids
    THEN [model_ids |-> mids, next_model_id |-> next, model_id |-> mids[k]]
    ELSE [model_ids |-> [x \in DOMAIN mids \cup {k} |-> IF x = k THEN next ELSE mids[x]],
          next_model_id |-> next + 1, model_id |-> next]

\* The loop of visit_interface_type: one _get_insert_model_id per attribute.
RECURSIVE InterfaceFields(_, _, _, _, _)
InterfaceFields(ty, attrs, mids, next, fields) ==
  IF attrs = <<>> THEN [model_ids |-> mids, next_model_id |-> next, fields |-> fields]
  ELSE LET r == GetInsertModelId(mids, next, <<ty, attrs[1].name>>)
       IN InterfaceFields(ty, Tail(attrs), r.model_ids, r.next_model_id,
                          Append(fields, [name |-> attrs[1].name, model_id |-> r.model_id]))

Top == stack[Len(stack)]
Pop == SubSeq(stack, 1, Len(stack) - 1)
SetTopIndex(i) == [stack EXCEPT ![Len(stack)].i = i]
Entering == gpc = "visiting" /\ stack # <<>> /\ Top.i = 0
Returned(st) == gpc' = IF st = <<>> THEN "done" ELSE "visiting"

\* resolver is any type graph: the composite types n.. are given definitions that
\* own at most budget edges in total, and the three leaf types follow them.
RECURSIVE IsTypeGraph(_, _, _)
IsTypeGraph(n, budget, defs) ==
  IF n > NumTypes THEN resolver = defs \o LeafTypes
  ELSE \E e \in 0..budget : \E d \in TypeDefs(n, e) :
         IsTypeGraph(n + 1, budget - e, Append(defs, d))

GenInit ==
  /\ IsTypeGraph(1, MaxEdges, <<>>)
  /\ gpc = "init"
  /\ visited_types = {}
  /\ stack = <<>>
  /\ interfaces = <<>> /\ alts = <<>> /\ enums = <<>> /\ primitives = <<>>
  /\ frozen_arrays = <<>>
  /\ model_ids = NoIds
  /\ next_model_id = 0
  /\ ret = NoRet
  /\ requeried = FALSE
  /\ calls = <<>>
  /\ nvisit = 0

\* CppTypeMacroGenerator.generate up to its call of visit
Generate ==
  /\ gpc = "init"
  /\ gpc' = "visiting"
  /\ interfaces' = <<>> /\ alts' = <<>> /\ enums' = <<>> /\ primitives' = <<>>
  /\ frozen_arrays' = <<>>
  /\ model_ids' = NoIds
  /\ next_model_id' = 0
  /\ stack' = <<[ty |-> Script, i |-> 0]>>
  /\ nvisit' = 1
  /\ UNCHANGED <<resolver, visited_types, ret, requeried, calls>>

\* visit: "if ty in self.visited_types: return", without the test
VisitedNever(ty) == FALSE

\* visit: the test "ty in self.visited_types"
Visited(ty) == ty \in visited_types

VisitSkip ==
  /\ Entering /\ Visited(Top.ty)
  /\ stack' = Pop
  /\ Returned(Pop)
  /\ UNCHANGED <<resolver, visited_types, interfaces, alts, enums, primitives,
                 frozen_arrays, model_ids, next_model_id, ret, requeried, calls, nvisit>>

VisitInterfaceType ==
  /\ Entering /\ ~Visited(Top.ty) /\ resolver[Top.ty].kind = "TyInterface"
  /\ visited_types' = visited_types \cup {Top.ty}
  /\ LET r == InterfaceFields(Top.ty, resolver[Top.ty].attrs, model_ids, next_model_id, <<>>)
     IN /\ model_ids' = r.model_ids
        /\ next_model_id' = r.next_model_id
        /\ interfaces' = Append(interfaces, [ty |-> Top.ty, fields |-> r.fields])
  /\ calls' = Append(calls, [cb |-> "visit_interface_type", ty |-> Top.ty])
  /\ stack' = SetTopIndex(1)
  /\ UNCHANGED <<resolver, gpc, alts, enums, primitives, frozen_arrays, ret, requeried,
                 nvisit>>

VisitAltType ==
  /\ Entering /\ ~Visited(Top.ty) /\ resolver[Top.ty].kind = "Alt"
  /\ visited_types' = visited_types \cup {Top.ty}
  /\ alts' = Append(alts, [ty |-> Top.ty, tys |-> resolver[Top.ty].tys])
  /\ calls' = Append(calls, [cb |-> "visit_alt_type", ty |-> Top.ty])
  /\ stack' = SetTopIndex(1)
  /\ UNCHANGED <<resolver, gpc, interfaces, enums, primitives, frozen_arrays, model_ids,
                 next_model_id, ret, requeried, nvisit>>

VisitEnumType ==
  /\ Entering /\ ~Visited(Top.ty) /\ resolver[Top.ty].kind = "TyEnum"
  /\ visited_types' = visited_types \cup {Top.ty}
  /\ enums' = Append(enums, Top.ty)
  /\ calls' = Append(calls, [cb |-> "visit_enum_type", ty |-> Top.ty])
  /\ stack' = Pop
  /\ Returned(Pop)
  /\ UNCHANGED <<resolver, interfaces, alts, primitives, frozen_arrays, model_ids,
                 next_model_id, ret, requeried, nvisit>>

VisitPrimitiveType ==
  /\ Entering /\ ~Visited(Top.ty) /\ resolver[Top.ty].kind = "TyPrimitive"
  /\ visited_types' = visited_types \cup {Top.ty}
  /\ primitives' = Append(primitives, Top.ty)
  /\ calls' = Append(calls, [cb |-> "visit_primitive_type", ty |-> Top.ty])
  /\ stack' = Pop
  /\ Returned(Pop)
  /\ UNCHANGED <<resolver, interfaces, alts, enums, frozen_arrays, model_ids,
                 next_model_id, ret, requeried, nvisit>>

VisitFrozenArrayType ==
  /\ Entering /\ ~Visited(Top.ty) /\ resolver[Top.ty].kind = "TyFrozenArray"
  /\ visited_types' = visited_types \cup {Top.ty}
  /\ LET r == GetInsertModelId(model_ids, next_model_id, <<Top.ty, ListLength>>)
     IN /\ model_ids' = r.model_ids
        /\ next_model_id' = r.next_model_id
        /\ frozen_arrays' = Append(frozen_arrays, [ty |-> Top.ty, model_id |-> r.model_id])
  /\ calls' = Append(calls, [cb |-> "visit_frozen_array_type", ty |-> Top.ty])
  /\ stack' = SetTopIndex(1)
  /\ UNCHANGED <<resolver, gpc, interfaces, alts, enums, primitives, ret, requeried,
                 nvisit>>

\* A type of no class the if/elif chain names (idl.TyNone): marked visited, no callback.
VisitUnmatched ==
  /\ Entering /\ ~Visited(Top.ty)
  /\ resolver[Top.ty].kind \notin
       {"TyInterface", "Alt", "TyEnum", "TyPrimitive", "TyFrozenArray"}
  /\ visited_types' = visited_types \cup {Top.ty}
  /\ stack' = Pop
  /\ Returned(Pop)
  /\ UNCHANGED <<resolver, interfaces, alts, enums, primitives, frozen_arrays, model_ids,
                 next_model_id, ret, requeried, calls, nvisit>>

\* One iteration of "for attr in ty.attrs" / "for subty in ty.tys", or the visit of
\* ty.element_ty: the recursive call.
VisitChild ==
  /\ gpc = "visiting" /\ stack # <<>> /\ Top.i >= 1
  /\ Top.i <= Len(Children(resolver, Top.ty))
  /\ stack' = Append(SetTopIndex(Top.i + 1),
                     [ty |-> Children(resolver, Top.ty)[Top.i], i |-> 0])
  /\ nvisit' = nvisit + 1
  /\ UNCHANGED <<resolver, gpc, visited_types, interfaces, alts, enums, primitives,
                 frozen_arrays, model_ids, next_model_id, ret, requeried, calls>>

\* The loop is over: visit returns.
VisitReturn ==
  /\ gpc = "visiting" /\ stack # <<>> /\ Top.i >= 1
  /\ Top.i > Len(Children(resolver, Top.ty))
  /\ stack' = Pop
  /\ Returned(Pop)
  /\ UNCHANGED <<resolver, visited_types, interfaces, alts, enums, primitives,
                 frozen_arrays, model_ids, next_model_id, ret, requeried, calls, nvisit>>

\* The keys the generator's callers know: an attribute of an interface, or the
\* length of an array.
ModelKeys ==
  UNION {{<<t, resolver[t].attrs[i].name>> : i \in DOMAIN resolver[t].attrs}
           : t \in CompositeIds}
  \cup (CompositeIds \X {ListLength})

\* One more call of _get_insert_model_id on the generator after generate.
GetInsertModelIdCall(k) ==
  /\ gpc = "done" /\ ~requeried
  /\ LET r == GetInsertModelId(model_ids, next_model_id, k)
     IN /\ model_ids' = r.model_ids
        /\ next_model_id' = r.next_model_id
        /\ ret' = [k |-> k, present |-> k \in DOMAIN model_ids, model_id |-> r.model_id,
                   next_before |-> next_model_id, ids_before |-> model_ids]
  /\ requeried' = TRUE
  /\ UNCHANGED <<resolver, gpc, visited_types, stack, interfaces, alts, enums,
                 primitives, frozen_arrays, calls, nvisit>>

GenStep ==
  \/ Generate
  \/ VisitSkip
  \/ VisitInterfaceType
  \/ VisitAltType
  \/ VisitEnumType
  \/ VisitPrimitiveType
  \/ VisitFrozenArrayType
  \/ VisitUnmatched
  \/ VisitChild
  \/ VisitReturn
  \/ \E k \in ModelKeys : GetInsertModelIdCall(k)

(***************************************************************************)
(* format.py: byte formats of the collaborators (modules bits, strings,    *)
(* encode, model, lazy, tycheck are not part of the sources at hand; they  *)
(* follow sections 4.1 to 4.9 of the specification).                       *)
(***************************************************************************)
\* bits.write_varint: base 128, little endian, continuation bit on all but the last
RECURSIVE Varint(_)
Varint(n) == IF n < 128 THEN <<n>> ELSE <<128 + (n % 128)>> \o Varint(n \div 128)

\* bits.read_varint at position pos (0-based) of buf
RECURSIVE ReadVarint(_, _)
ReadVarint(buf, pos) ==
  IF pos < 0 \/ pos >= Len(buf) THEN [ok |-> FALSE, value |-> 0, pos |-> pos]
  ELSE IF buf[pos + 1] < 128 THEN [ok |-> TRUE, value |-> buf[pos + 1], pos |-> pos + 1]
  ELSE LET r == ReadVarint(buf, pos + 1)
       IN [ok |-> r.ok, value |-> (buf[pos + 1] - 128) + 128 * r.value, pos |-> r.pos]

\* count varints read one after the other
RECURSIVE ReadVarints(_, _, _, _)
ReadVarints(buf, pos, count, acc) ==
  IF count = 0 THEN [ok |-> TRUE, values |-> acc, pos |-> pos]
  ELSE LET r == ReadVarint(buf, pos)
       IN IF ~r.ok THEN [ok |-> FALSE, values |-> acc, pos |-> r.pos]
          ELSE ReadVarints(buf, r.pos, count - 1, Append(acc, r.value))

Slice(buf, from, to) == SubSeq(buf, from + 1, to)

IndexOf(seq, x) == IF \E i \in DOMAIN seq : seq[i] = x
                     THEN CHOOSE i \in DOMAIN seq : seq[i] = x /\ \A j \in 1..(i - 1) : seq[j] # x
                     ELSE 0

\* Strings are sequences of code points below 128, which UTF-8 writes as they are.
StrA == <<97>>
StrB == <<98>>

RECURSIVE StrLess(_, _)
StrLess(a, b) ==
  IF b = <<>> THEN FALSE
  ELSE IF a = <<>> THEN TRUE
  ELSE IF a[1] # b[1] THEN a[1] < b[1]
  ELSE StrLess(Tail(a), Tail(b))

\* list(sorted(set))
RECURSIVE Sorted(_)
Sorted(S) ==
  IF S = {} THEN <<>>
  ELSE LET least == CHOOSE x \in S : \A y \in S \ {x} : StrLess(x, y)
       IN <<least>> \o Sorted(S \ {least})

\* strings.write_dict(out, strings, with_signature=False)
WriteDict(strs) ==
  Varint(Len(strs)) \o Flatten([i \in DOMAIN strs |-> Varint(Len(strs[i])) \o strs[i]])

\* strings.read_dict(inp, with_signature=False)
RECURSIVE ReadStrings(_, _, _, _)
ReadStrings(buf, pos, count, acc) ==
  IF count = 0 THEN [ok |-> TRUE, strings |-> acc, pos |-> pos]
  ELSE LET n == ReadVarint(buf, pos)
       IN IF ~n.ok \/ n.pos + n.value > Len(buf)
               \/ \E i \in (n.pos + 1)..(n.pos + n.value) : buf[i] >= 128
            THEN [ok |-> FALSE, strings |-> acc, pos |-> n.pos]
            ELSE ReadStrings(buf, n.pos + n.value, count - 1,
                             Append(acc, Slice(buf, n.pos, n.pos + n.value)))

ReadDict(buf, pos) ==
  LET c == ReadVarint(buf, pos)
  IN IF ~c.ok THEN [ok |-> FALSE, strings |-> <<>>, pos |-> c.pos]
     ELSE ReadStrings(buf, c.pos, c.value, <<>>)

\* The 64-bit IEEE 754 pattern of a small whole double, little endian.
DoubleBits(n) ==
  CASE n = 0 -> <<0, 0, 0, 0, 0, 0, 0, 0>>
    [] n = 1 -> <<0, 0, 0, 0, 0, 0, 240, 63>>
    [] n = 2 -> <<0, 0, 0, 0, 0, 0, 0, 64>>
    [] n = 3 -> <<0, 0, 0, 0, 0, 0, 8, 64>>
    [] OTHER -> <<0, 0, 0, 0, 0, 0, 248, 127>>

\* The double of a pattern; -1 stands for every double that is not 0, 1, 2 or 3.
DoubleFromBits(bytes) ==
  IF \E n \in 0..3 : DoubleBits(n) = bytes
    THEN CHOOSE n \in 0..3 : DoubleBits(n) = bytes ELSE -1

\* brotli.compress: a lossless recoding that is not the identity; the first byte
\* makes a frame that decompress can reject.
Compress(bytes) == <<Len(bytes) % 256>> \o [i \in DOMAIN bytes |-> (bytes[i] + 1) % 256]

\* brotli.decompress
Decompress(bytes) ==
  IF bytes = <<>> \/ bytes[1] # (Len(bytes) - 1) % 256
    THEN [ok |-> FALSE, content |-> <<>>]
    ELSE [ok |-> TRUE,
          content |-> [i \in 1..(Len(bytes) - 1) |-> (bytes[i + 1] + 255) % 256]]

(***************************************************************************)
(* format.py: the IDL handed to write and read, and trees.                 *)
(***************************************************************************)
CAttr(name, ty, lazy) == [name |-> name, resolved_ty |-> ty, lazy |-> lazy]

\* types: an interface with a string, a double and a lazy list of itself
types ==
  [t \in {"Script", "ScriptList", "string", "double"} |->
     CASE t = "Script" ->
            [kind |-> "TyInterface", element_ty |-> "",
             attrs |-> <<CAttr("name", "string", FALSE), CAttr("value", "double", FALSE),
                         CAttr("kids", "ScriptList", TRUE)>>]
       [] t = "ScriptList" ->
            [kind |-> "TyFrozenArray", element_ty |-> "Script", attrs |-> <<>>]
       [] OTHER -> [kind |-> "TyPrimitive", element_ty |-> "", attrs |-> <<>>]]

\* Tree values: a struct (one value per attribute), a list, a string, a double, an
\* int, or the placeholder of a lazy value.
V(tag, n, s, items) == [tag |-> tag, n |-> n, s |-> s, items |-> items]
VStruct(fields) == V("struct", 0, <<>>, fields)
VList(items) == V("list", 0, <<>>, items)
VStr(s) == V("string", 0, s, <<>>)
VDbl(n) == V("double", n, <<>>, <<>>)
VInt(n) == V("int", n, <<>>, <<>>)
VLazy(i) == V("lazy", i, <<>>, <<>>)

\* tycheck.FloatFixer.rewrite: ints in double position become doubles
RECURSIVE FloatFix(_, _)
FloatFix(ty, v) ==
  LET d == types[ty] IN
  CASE d.kind = "TyInterface" /\ v.tag = "struct" /\ Len(v.items) = Len(d.attrs) ->
         VStruct([i \in DOMAIN v.items |-> FloatFix(d.attrs[i].resolved_ty, v.items[i])])
    [] d.kind = "TyFrozenArray" /\ v.tag = "list" ->
         VList([i \in DOMAIN v.items |-> FloatFix(d.element_ty, v.items[i])])
    [] ty = "double" /\ v.tag = "int" -> VDbl(v.n)
    [] OTHER -> v

\* tycheck.TypeChecker.check_any
RECURSIVE TypeCheck(_, _)
TypeCheck(ty, v) ==
  LET d == types[ty] IN
  CASE d.kind = "TyInterface" ->
         /\ v.tag = "struct" /\ Len(v.items) = Len(d.attrs)
         /\ \A i \in DOMAIN v.items : TypeCheck(d.attrs[i].resolved_ty, v.items[i])
    [] d.kind = "TyFrozenArray" ->
         v.tag = "list" /\ \A i \in DOMAIN v.items : TypeCheck(d.element_ty, v.items[i])
    [] OTHER -> v.tag = ty

\* strings.StringCollector.visit: the strings of the tree
RECURSIVE CollectStrings(_, _)
CollectStrings(ty, v) ==
  LET d == types[ty] IN
  CASE d.kind = "TyInterface" ->
         UNION {CollectStrings(d.attrs[i].resolved_ty, v.items[i]) : i \in DOMAIN v.items}
    [] d.kind = "TyFrozenArray" ->
         UNION {CollectStrings(d.element_ty, v.items[i]) : i \in DOMAIN v.items}
    [] OTHER -> IF v.tag = "string" THEN {v.s} ELSE {}

\* The model ids in canonical order: (interface, attribute) and (array, 'list-length')
\* in the order of the walk from Script.
CodecModelKeys ==
  <<<<"Script", "name">>, <<"Script", "value">>, <<"Script", "kids">>,
    <<"ScriptList", ListLength>>>>

ModelId(key) == IndexOf(CodecModelKeys, key)

\* What kind of symbol a model id codes.
SymKind(id) ==
  LET key == CodecModelKeys[id] IN
  IF key[2] = ListLength THEN "length"
  ELSE LET a == CHOOSE a \in Range(types[key[1]].attrs) : a.name = key[2]
       IN IF types[a.resolved_ty].kind = "TyPrimitive" THEN a.resolved_ty ELSE "none"

SymOf(v) == IF v.tag = "string" THEN v.s ELSE v.n

\* The tokens of a tree in coding order: <<model id, symbol>>.
RECURSIVE Tokens(_, _, _)
Tokens(ty, v, key) ==
  LET d == types[ty] IN
  CASE v.tag = "lazy" -> <<>>
    [] d.kind = "TyInterface" ->
         Flatten([i \in DOMAIN v.items |->
                    Tokens(d.attrs[i].resolved_ty, v.items[i], <<ty, d.attrs[i].name>>)])
    [] d.kind = "TyFrozenArray" ->
         <<<<ModelId(<<ty, ListLength>>), Len(v.items)>>>>
         \o Flatten([i \in DOMAIN v.items |-> Tokens(d.element_ty, v.items[i], key)])
    [] OTHER -> <<<<ModelId(key), SymOf(v)>>>>

EmptyModel == [id \in DOMAIN CodecModelKeys |-> <<>>]

RECURSIVE Observe(_, _)
Observe(mm, toks) ==
  IF toks = <<>> THEN mm
  ELSE LET id == toks[1][1]
           sym == toks[1][2]
           at == IndexOf([i \in DOMAIN mm[id] |-> mm[id][i].sym], sym)
       IN Observe([mm EXCEPT ![id] =
                     IF at = 0 THEN Append(@, [sym |-> sym, weight |-> 1])
                     ELSE [@ EXCEPT ![at].weight = @ + 1]],
                  Tail(toks))

\* model.model_tree: per model id, the symbols in order of first observation with
\* their counts
ModelTree(ty, tree) == Observe(EmptyModel, Tokens(ty, tree, <<ty, "">>))

SerializeSymbol(id, sym, dict) ==
  CASE SymKind(id) = "string" -> Varint(IndexOf(dict, sym) - 1)
    [] SymKind(id) = "double" -> DoubleBits(sym)
    [] OTHER -> Varint(sym)

\* encode.ModelWriter.write
ModelBytes(mm, dict) ==
  Flatten([id \in DOMAIN mm |->
     Varint(Len(mm[id]))
     \o Flatten([i \in DOMAIN mm[id] |->
          SerializeSymbol(id, mm[id][i].sym, dict) \o Varint(mm[id][i].weight)])])

ReadSymbol(id, buf, pos, dict) ==
  CASE SymKind(id) = "double" ->
         IF pos + 8 > Len(buf) THEN [ok |-> FALSE, sym |-> 0, pos |-> pos]
         ELSE [ok |-> TRUE, sym |-> DoubleFromBits(Slice(buf, pos, pos + 8)), pos |-> pos + 8]
    [] SymKind(id) = "string" ->
         LET r == ReadVarint(buf, pos)
         IN IF ~r.ok \/ r.value >= Len(dict) THEN [ok |-> FALSE, sym |-> <<>>, pos |-> r.pos]
            ELSE [ok |-> TRUE, sym |-> dict[r.value + 1], pos |-> r.pos]
    [] OTHER ->
         LET r == ReadVarint(buf, pos) IN [ok |-> r.ok, sym |-> r.value, pos |-> r.pos]

RECURSIVE ReadDistribution(_, _, _, _, _, _)
ReadDistribution(id, buf, pos, count, dict, acc) ==
  IF count = 0 THEN [ok |-> TRUE, dist |-> acc, pos |-> pos]
  ELSE LET s == ReadSymbol(id, buf, pos, dict)
           w == ReadVarint(buf, s.pos)
       IN IF ~s.ok \/ ~w.ok THEN [ok |-> FALSE, dist |-> acc, pos |-> pos]
          ELSE ReadDistribution(id, buf, w.pos, count - 1, dict,
                                Append(acc, [sym |-> s.sym, weight |-> w.value]))

\* encode.ModelReader.read
RECURSIVE ReadModel(_, _, _, _, _)
ReadModel(buf, pos, dict, id, acc) ==
  IF id > Len(CodecModelKeys) THEN [ok |-> TRUE, m |-> acc, pos |-> pos]
  ELSE LET c == ReadVarint(buf, pos)
           r == ReadDistribution(id, buf, c.pos, c.value, dict, <<>>)
       IN IF ~c.ok \/ ~r.ok THEN [ok |-> FALSE, m |-> acc, pos |-> pos]
          ELSE ReadModel(buf, r.pos, dict, id + 1, Append(acc, r.dist))

\* The code of a symbol under a distribution: its position in it.
TokenOf(mm, tok) == IndexOf([i \in DOMAIN mm[tok[1]] |-> mm[tok[1]][i].sym], tok[2]) - 1

\* encode.encode: one byte per token
Encode(mm, ty, v) ==
  LET toks == Tokens(ty, v, <<ty, "">>) IN [i \in DOMAIN toks |-> TokenOf(mm, toks[i])]

\* One token read under the distribution of a model id.
DecodeSymbol(mm, id, buf, pos) ==
  IF pos < 0 \/ pos >= Len(buf) \/ id = 0 THEN [ok |-> FALSE, sym |-> 0]
  ELSE IF buf[pos + 1] >= Len(mm[id]) THEN [ok |-> FALSE, sym |-> 0]
  ELSE [ok |-> TRUE, sym |-> mm[id][buf[pos + 1] + 1].sym]

\* encode.decode: the tree of type ty at pos, with the placeholders of its lazy
\* attributes numbered in order; DecodeFields and DecodeItems are its loops.
RECURSIVE Decode(_, _, _, _, _, _)
RECURSIVE DecodeFields(_, _, _, _, _, _, _)
RECURSIVE DecodeItems(_, _, _, _, _, _, _, _)
Decode(mm, ty, key, buf, pos, nlazy) ==
  LET d == types[ty] IN
  CASE d.kind = "TyInterface" -> DecodeFields(mm, ty, 1, buf, pos, nlazy, <<>>)
    [] d.kind = "TyFrozenArray" ->
         LET n == DecodeSymbol(mm, ModelId(<<ty, ListLength>>), buf, pos)
         IN IF ~n.ok THEN [ok |-> FALSE, val |-> VList(<<>>), pos |-> pos, nlazy |-> nlazy]
            ELSE DecodeItems(mm, d.element_ty, key, n.sym, buf, pos + 1, nlazy, <<>>)
    [] OTHER ->
         LET s == DecodeSymbol(mm, ModelId(key), buf, pos)
         IN IF ~s.ok THEN [ok |-> FALSE, val |-> VInt(0), pos |-> pos, nlazy |-> nlazy]
            ELSE [ok |-> TRUE, pos |-> pos + 1, nlazy |-> nlazy,
                  val |-> IF ty = "string" THEN VStr(s.sym) ELSE V(ty, s.sym, <<>>, <<>>)]

DecodeFields(mm, ty, i, buf, pos, nlazy, acc) ==
  LET attrs == types[ty].attrs IN
  IF i > Len(attrs) THEN [ok |-> TRUE, val |-> VStruct(acc), pos |-> pos, nlazy |-> nlazy]
  ELSE IF attrs[i].lazy
    THEN DecodeFields(mm, ty, i + 1, buf, pos, nlazy + 1, Append(acc, VLazy(nlazy)))
  ELSE LET r == Decode(mm, attrs[i].resolved_ty, <<ty, attrs[i].name>>, buf, pos, nlazy)
       IN IF ~r.ok THEN [ok |-> FALSE, val |-> VStruct(acc), pos |-> r.pos, nlazy |-> nlazy]
          ELSE DecodeFields(mm, ty, i + 1, buf, r.pos, r.nlazy, Append(acc, r.val))

DecodeItems(mm, ty, key, count, buf, pos, nlazy, acc) ==
  IF count = 0 THEN [ok |-> TRUE, val |-> VList(acc), pos |-> pos, nlazy |-> nlazy]
  ELSE LET r == Decode(mm, ty, key, buf, pos, nlazy)
       IN IF ~r.ok THEN [ok |-> FALSE, val |-> VList(acc), pos |-> r.pos, nlazy |-> nlazy]
          ELSE DecodeItems(mm, ty, key, count - 1, buf, r.pos, r.nlazy, Append(acc, r.val))

\* lazy.LazyMemberExtractor.replace: the node with every lazy value replaced by a
\* placeholder, and the lazy values (type, attribute, value) in traversal order
RECURSIVE Extract(_, _, _)
RECURSIVE ExtractEach(_, _, _, _, _)
Extract(ty, v, lazies) ==
  LET d == types[ty] IN
  IF d.kind = "TyPrimitive" THEN [val |-> v, lazies |-> lazies]
  ELSE ExtractEach(ty, v, 1, lazies, <<>>)

ExtractEach(ty, v, i, lazies, acc) ==
  LET d == types[ty] IN
  IF i > Len(v.items) THEN [val |-> V(v.tag, 0, <<>>, acc), lazies |-> lazies]
  ELSE IF d.kind = "TyInterface" /\ d.attrs[i].lazy
    THEN ExtractEach(ty, v, i + 1,
                     Append(lazies, [ty |-> ty, attr |-> d.attrs[i], part |-> v.items[i]]),
                     Append(acc, VLazy(Len(lazies))))
  ELSE LET r == Extract(IF d.kind = "TyInterface" THEN d.attrs[i].resolved_ty
                        ELSE d.element_ty, v.items[i], lazies)
       IN ExtractEach(ty, v, i + 1, r.lazies, Append(acc, r.val))

(***************************************************************************)
(* format.py: write and read.                                              *)
(***************************************************************************)
\* MAGIC_HEADER = b"\x89BJS\r\n\0\n"
MAGIC_HEADER == <<137, 66, 74, 83, 13, 10, 0, 10>>
\* FORMAT_VERSION = struct.pack('b', 2)
FORMAT_VERSION == <<2>>

\* write, lines 57-58: the collected strings minus the shared dictionary, sorted;
\* this variant forgets the subtraction
LocalStringsNoSubtract(collected, shared) == Sorted(collected)

\* write, lines 57-58
LocalStrings(collected, shared) == Sorted(collected \ Range(shared))

\* write_piece, lines 82-86, with each size written right before its part
LazyPartsInterleaved(lazy_encoded) ==
  Varint(Len(lazy_encoded))
  \o Flatten([i \in DOMAIN lazy_encoded |-> Varint(Len(lazy_encoded[i])) \o lazy_encoded[i]])

\* write_piece, lines 82-86: the count, the sizes, then the parts
LazyParts(lazy_encoded) ==
  Varint(Len(lazy_encoded))
  \o Flatten([i \in DOMAIN lazy_encoded |-> Varint(Len(lazy_encoded[i]))])
  \o Flatten(lazy_encoded)

\* write.write_piece: what one call writes to its out
RECURSIVE WritePiece(_, _, _)
WritePiece(mm, ty, node) ==
  LET lazy_parts == Extract(ty, node, <<>>)
      lazy_encoded == [i \in DOMAIN lazy_parts.lazies |->
                         WritePiece(mm, lazy_parts.lazies[i].attr.resolved_ty,
                                    lazy_parts.lazies[i].part)]
  IN Encode(mm, ty, lazy_parts.val) \o LazyParts(lazy_encoded)

\* read_piece, lines 172-176, without "+ inp.tell()"
LazyOffsetsRelative(sizes, tell) ==
  [i \in 1..(Len(sizes) + 1) |-> SumSeq(SubSeq(sizes, 1, i - 1))]

\* read_piece, lines 172-176: lazy_offsets
LazyOffsets(sizes, tell) ==
  [i \in 1..(Len(sizes) + 1) |-> SumSeq(SubSeq(sizes, 1, i - 1)) + tell]

\* restore_lazy_part, line 181, with the assertion dropped
AssertBoundaryNever(tell, declared) == TRUE

\* restore_lazy_part, line 181: assert inp.tell() == lazy_offsets[index + 1]
AssertBoundary(tell, declared) == tell = declared

\* read_piece, line 186, with no seek: the stream stays where the restorer left it
PieceEndNoSeek(lazy_offsets, tell) == tell

\* read_piece, line 186: inp.seek(lazy_offsets[-1])
PieceEnd(lazy_offsets, tell) == lazy_offsets[Len(lazy_offsets)]

Failed(val, st) ==
  [ok |-> FALSE, val |-> val, pos |-> st.pos, pieces |-> st.pieces, restores |-> st.restores]

\* read.read_piece: the tree, the position the stream is left at, the read_piece
\* calls that returned (pieces) and the restore_lazy_part calls that got as far as
\* their assertion (restores).  Restore and RestoreEach are
\* lazy.LazyMemberRestorer.replace calling restore_lazy_part.
RECURSIVE ReadPiece(_, _, _, _)
RECURSIVE Restore(_, _, _, _, _, _)
RECURSIVE RestoreEach(_, _, _, _, _, _, _, _)
ReadPiece(mm, ty, buf, pos) ==
  LET d == Decode(mm, ty, <<ty, "">>, buf, pos, 0)
      num_lazy_parts == ReadVarint(buf, d.pos)
      sz == ReadVarints(buf, num_lazy_parts.pos, num_lazy_parts.value, <<>>)
      lazy_offsets == LazyOffsets(sz.values, sz.pos)
      st0 == [pos |-> pos, pieces |-> <<>>, restores |-> <<>>]
  IN IF ~d.ok \/ ~num_lazy_parts.ok \/ ~sz.ok THEN Failed(d.val, st0)
     ELSE LET r == Restore(mm, ty, d.val, buf, lazy_offsets, [st0 EXCEPT !.pos = sz.pos])
              end == PieceEnd(lazy_offsets, r.pos)
          IN IF ~r.ok THEN r
             ELSE [ok |-> TRUE, val |-> r.val, pos |-> end, restores |-> r.restores,
                   pieces |-> Append(r.pieces,
                     [ty |-> ty, start |-> pos, body_end |-> d.pos,
                      count |-> num_lazy_parts.value, sizes |-> sz.values,
                      tell |-> sz.pos, lazy_offsets |-> lazy_offsets,
                      placeholders |-> d.nlazy, end |-> end])]

Restore(mm, ty, v, buf, lazy_offsets, st) ==
  IF types[ty].kind = "TyPrimitive"
    THEN [ok |-> TRUE, val |-> v, pos |-> st.pos, pieces |-> st.pieces,
          restores |-> st.restores]
    ELSE RestoreEach(mm, ty, v, 1, buf, lazy_offsets, st, <<>>)

RestoreEach(mm, ty, v, i, buf, lazy_offsets, st, acc) ==
  LET d == types[ty] IN
  IF i > Len(v.items)
    THEN [ok |-> TRUE, val |-> V(v.tag, 0, <<>>, acc), pos |-> st.pos,
          pieces |-> st.pieces, restores |-> st.restores]
  ELSE IF d.kind = "TyInterface" /\ d.attrs[i].lazy /\ v.items[i].tag = "lazy"
    THEN LET index == v.items[i].n IN
         IF index + 1 > Len(lazy_offsets) THEN Failed(v, st)
         ELSE LET part == ReadPiece(mm, d.attrs[i].resolved_ty, buf, lazy_offsets[index + 1])
                  st1 == [pos |-> part.pos, pieces |-> st.pieces \o part.pieces,
                          restores |-> st.restores \o part.restores]
              IN IF ~part.ok \/ index + 2 > Len(lazy_offsets) THEN Failed(v, st1)
                 ELSE LET st2 == [st1 EXCEPT !.restores =
                                    Append(@, [index |-> index,
                                               from |-> lazy_offsets[index + 1],
                                               tell |-> part.pos,
                                               declared |-> lazy_offsets[index + 2]])]
                      IN IF ~AssertBoundary(part.pos, lazy_offsets[index + 2])
                           THEN Failed(v, st2)
                           ELSE RestoreEach(mm, ty, v, i + 1, buf, lazy_offsets, st2,
                                            Append(acc, part.val))
  ELSE LET r == Restore(mm, IF d.kind = "TyInterface" THEN d.attrs[i].resolved_ty
                            ELSE d.element_ty,
                        v.items[i], buf, lazy_offsets, st)
       IN IF ~r.ok THEN r
          ELSE RestoreEach(mm, ty, v, i + 1, buf, lazy_offsets,
                           [pos |-> r.pos, pieces |-> r.pieces, restores |-> r.restores],
                           Append(acc, r.val))

(***************************************************************************)
(* format.py: the inputs of write.                                         *)
(***************************************************************************)
\* The name and value of a node: an int in the double slot, or a double.
Labels == {<<StrA, VInt(1)>>, <<StrB, VDbl(2)>>}

Node(label, kids) == VStruct(<<VStr(label[1]), label[2], VList(kids)>>)

\* Trees of exactly n nodes, and sequences of trees of n nodes in all.
RECURSIVE TreesOfSize(_)
RECURSIVE ForestsOfSize(_)
TreesOfSize(n) == {Node(l, f) : l \in Labels, f \in ForestsOfSize(n - 1)}

ForestsOfSize(n) ==
  IF n = 0 THEN {<<>>}
  ELSE UNION {{<<t>> \o f : t \in TreesOfSize(k), f \in ForestsOfSize(n - k)} : k \in 1..n}

\* Trees that do not conform to Script: a string where the double belongs, at the
\* root or in a lazy part.
IllTyped ==
  {Node(<<StrA, VStr(StrB)>>, <<>>),
   Node(<<StrA, VInt(1)>>, <<Node(<<StrB, VStr(StrA)>>, <<>>)>>)}

TreeInputs == UNION {TreesOfSize(n) : n \in 1..MaxNodes} \cup IllTyped

\* The shared dictionaries a caller passes: none, one that holds some of the
\* strings, one that holds all of them (in the caller's order).
SharedDicts == {<<>>, <<StrA>>, <<StrB, StrA>>}

\* The statements of write in the order they run, named by what has been done
\* once they are over; here the tree is encoded before the model is serialised.
WriteOrderPiecesFirst ==
  <<"start", "fixed", "checked", "magic", "version", "strings", "pieces", "model",
    "compressed">>

\* The statements of write in the order they run (lines 43, 46, 48, 49, 55-60,
\* 63-65, 88, 90-91).
WriteOrder ==
  <<"start", "fixed", "checked", "magic", "version", "strings", "model", "pieces",
    "compressed">>

\* The calls after the type check that may raise: none does, or the one of the
\* named statement (string collection and table, model, tree encoding, brotli and
\* the final out.write).
Faults == {"none", "strings", "model", "pieces", "compressed"}

VARIABLES
  tree,              \* the caller's tree (write rewrites it in place)
  tree_in,           \* the tree as the caller passed it
  string_dict,       \* the caller's shared dictionary
  fault,             \* the statement of write whose collaborator raises
  out,               \* the caller's output stream
  wpc,               \* the last statement of write that ran, or "failed"
  content_no_brotli, \* write's inner buffer
  local_strings,     \* write's local_strings
  w_string_dict,     \* write's rebinding of string_dict (local + shared)
  m,                 \* write's model
  wlog,              \* the sections written so far: [stream, section, from, to]
  inp,               \* the stream handed to read
  inp_pos,           \* inp.tell()
  rpc,               \* the last step of read that ran: "idle", "start", "magic",
                     \* "version", "brotli", "strings", "model", "done"; or "failed"
  corrupted,         \* inp is out with one byte changed
  body,              \* what read did after the header (lines 156-191)
  tree_out           \* the tree read returns

cvars == <<tree, tree_in, string_dict, fault, out, wpc, content_no_brotli,
           local_strings, w_string_dict, m, wlog, inp, inp_pos, rpc, corrupted, body,
           tree_out>>

vars == <<gvars, cvars>>

NoTree == VList(<<>>)

NoBody == [read |-> FALSE, decompressed |-> FALSE, content |-> <<>>, stage |-> "none",
           local_strings |-> <<>>, string_dict |-> <<>>, m |-> <<>>,
           dict_end |-> 0, model_end |-> 0, piece_end |-> 0,
           pieces |-> <<>>, restores |-> <<>>]

CodecFresh ==
  /\ out = <<>> /\ wpc = "start" /\ content_no_brotli = <<>>
  /\ local_strings = <<>> /\ w_string_dict = <<>> /\ m = EmptyModel /\ wlog = <<>>
  /\ inp = <<>> /\ inp_pos = 0 /\ rpc = "idle" /\ corrupted = FALSE
  /\ body = NoBody /\ tree_out = NoTree

CodecInit ==
  /\ tree \in TreeInputs
  /\ tree_in = tree
  /\ string_dict \in SharedDicts
  /\ fault \in Faults
  /\ CodecFresh

Before(step) == WriteOrder[IndexOf(WriteOrder, step) - 1]

\* The statement that leads to `step` is the next to run, and its calls return.
Ready(step) == wpc = Before(step) /\ fault # step

Logged(stream, section, from, to) ==
  Append(wlog, [stream |-> stream, section |-> section, from |-> from, to |-> to])

\* line 43: tycheck.FloatFixer(types).rewrite(ty, tree)
WriteFloatFix ==
  /\ Ready("fixed")
  /\ tree' = FloatFix("Script", tree)
  /\ wpc' = "fixed"
  /\ UNCHANGED <<tree_in, string_dict, fault, out, content_no_brotli, local_strings,
                 w_string_dict, m, wlog, inp, inp_pos, rpc, corrupted, body, tree_out>>

\* line 46: tycheck.TypeChecker(types).check_any(ty, tree), which raises on a tree
\* that does not conform
WriteTypeCheck ==
  /\ Ready("checked")
  /\ wpc' = IF TypeCheck("Script", tree) THEN "checked" ELSE "failed"
  /\ UNCHANGED <<tree, tree_in, string_dict, fault, out, content_no_brotli,
                 local_strings, w_string_dict, m, wlog, inp, inp_pos, rpc, corrupted,
                 body, tree_out>>

\* line 48: out.write(MAGIC_HEADER)
WriteMagic ==
  /\ Ready("magic")
  /\ out' = out \o MAGIC_HEADER
  /\ wlog' = Logged("out", "magic", Len(out), Len(out) + Len(MAGIC_HEADER))
  /\ wpc' = "magic"
  /\ UNCHANGED <<tree, tree_in, string_dict, fault, content_no_brotli, local_strings,
                 w_string_dict, m, inp, inp_pos, rpc, corrupted, body, tree_out>>

\* line 49: out.write(FORMAT_VERSION)
WriteVersion ==
  /\ Ready("version")
  /\ out' = out \o FORMAT_VERSION
  /\ wlog' = Logged("out", "version", Len(out), Len(out) + Len(FORMAT_VERSION))
  /\ wpc' = "version"
  /\ UNCHANGED <<tree, tree_in, string_dict, fault, content_no_brotli, local_strings,
                 w_string_dict, m, inp, inp_pos, rpc, corrupted, body, tree_out>>

\* lines 55-60: the local strings, the effective dictionary, the string table
WriteStrings ==
  /\ Ready("strings")
  /\ LET local == LocalStrings(CollectStrings("Script", tree), string_dict)
     IN /\ local_strings' = local
        /\ w_string_dict' = local \o string_dict
        /\ content_no_brotli' = content_no_brotli \o WriteDict(local)
        /\ wlog' = Logged("content", "strings", Len(content_no_brotli),
                          Len(content_no_brotli) + Len(WriteDict(local)))
  /\ wpc' = "strings"
  /\ UNCHANGED <<tree, tree_in, string_dict, fault, out, m, inp, inp_pos, rpc,
                 corrupted, body, tree_out>>

\* lines 63-65: model.model_tree, then ModelWriter(...).write(ty, m)
WriteModel ==
  /\ Ready("model")
  /\ LET mm == ModelTree("Script", tree)
         bytes == ModelBytes(mm, w_string_dict)
     IN /\ m' = mm
        /\ content_no_brotli' = content_no_brotli \o bytes
        /\ wlog' = Logged("content", "model", Len(content_no_brotli),
                          Len(content_no_brotli) + Len(bytes))
  /\ wpc' = "model"
  /\ UNCHANGED <<tree, tree_in, string_dict, fault, out, local_strings, w_string_dict,
                 inp, inp_pos, rpc, corrupted, body, tree_out>>

\* line 88: write_piece(ty, tree, content_no_brotli)
WritePieces ==
  /\ Ready("pieces")
  /\ LET bytes == WritePiece(m, "Script", tree)
     IN /\ content_no_brotli' = content_no_brotli \o bytes
        /\ wlog' = Logged("content", "pieces", Len(content_no_brotli),
                          Len(content_no_brotli) + Len(bytes))
  /\ wpc' = "pieces"
  /\ UNCHANGED <<tree, tree_in, string_dict, fault, out, local_strings, w_string_dict,
                 m, inp, inp_pos, rpc, corrupted, body, tree_out>>

\* lines 90-91: out.write(brotli.compress(content_no_brotli.getvalue()))
WriteCompressed ==
  /\ Ready("compressed")
  /\ LET bytes == Compress(content_no_brotli)
     IN /\ out' = out \o bytes
        /\ wlog' = Logged("out", "brotli", Len(out), Len(out) + Len(bytes))
  /\ wpc' = "compressed"
  /\ UNCHANGED <<tree, tree_in, string_dict, fault, content_no_brotli, local_strings,
                 w_string_dict, m, inp, inp_pos, rpc, corrupted, body, tree_out>>

\* A call of lines 55-91 raises: write ends with the exception, and nothing in it
\* takes back what it wrote to out.
WriteRaises ==
  /\ fault # "none"
  /\ wpc = Before(fault)
  /\ wpc' = "failed"
  /\ UNCHANGED <<tree, tree_in, string_dict, fault, out, content_no_brotli,
                 local_strings, w_string_dict, m, wlog, inp, inp_pos, rpc, corrupted,
                 body, tree_out>>

\* The caller rewinds the stream write filled and hands it to read.
Rewind ==
  /\ wpc = "compressed" /\ rpc = "idle"
  /\ inp' = out
  /\ inp_pos' = 0
  /\ rpc' = "start"
  /\ UNCHANGED <<tree, tree_in, string_dict, fault, out, wpc, content_no_brotli,
                 local_strings, w_string_dict, m, wlog, corrupted, body, tree_out>>

\* The positions of out whose change the model follows: the header, and the bytes
\* that carry the tree body, the lazy index and the lazy parts.
CorruptiblePositions ==
  (0..(Len(MAGIC_HEADER) + Len(FORMAT_VERSION) - 1))
  \cup {Len(MAGIC_HEADER) + Len(FORMAT_VERSION) + 1 + k : k \in
          UNION {wlog[i].from..(wlog[i].to - 1) :
                   i \in {j \in DOMAIN wlog : wlog[j].section = "pieces"}}}

\* read is handed the stream with the byte at pos changed by one, up or down.
Corrupt(pos, delta) ==
  /\ wpc = "compressed" /\ rpc = "idle"
  /\ pos \in CorruptiblePositions
  /\ inp' = [out EXCEPT ![pos + 1] = (@ + delta) % 256]
  /\ inp_pos' = 0
  /\ rpc' = "start"
  /\ corrupted' = TRUE
  /\ UNCHANGED <<tree, tree_in, string_dict, fault, out, wpc, content_no_brotli,
                 local_strings, w_string_dict, m, wlog, body, tree_out>>

\* inp.read(n) at the stream position
ReadBytes(n) == Slice(inp, inp_pos, IF inp_pos + n > Len(inp) THEN Len(inp) ELSE inp_pos + n)

\* line 150 without its assertion
MagicAccepted(bytes) == TRUE

\* line 150: assert maybe_magic_header == MAGIC_HEADER
MagicOK(bytes) == bytes = MAGIC_HEADER

\* line 153: assert maybe_format_version == FORMAT_VERSION
VersionOK(bytes) == bytes = FORMAT_VERSION

\* lines 149-150
ReadMagic ==
  /\ rpc = "start"
  /\ inp_pos' = inp_pos + Len(ReadBytes(Len(MAGIC_HEADER)))
  /\ rpc' = IF MagicOK(ReadBytes(Len(MAGIC_HEADER))) THEN "magic" ELSE "failed"
  /\ UNCHANGED <<tree, tree_in, string_dict, fault, out, wpc, content_no_brotli,
                 local_strings, w_string_dict, m, wlog, inp, corrupted, body, tree_out>>

\* lines 152-153
ReadVersion ==
  /\ rpc = "magic"
  /\ inp_pos' = inp_pos + Len(ReadBytes(Len(FORMAT_VERSION)))
  /\ rpc' = IF VersionOK(ReadBytes(Len(FORMAT_VERSION))) THEN "version" ELSE "failed"
  /\ UNCHANGED <<tree, tree_in, string_dict, fault, out, wpc, content_no_brotli,
                 local_strings, w_string_dict, m, wlog, inp, corrupted, body, tree_out>>

\* lines 156-157: the rest of inp is read and decompressed
ReadBrotli ==
  /\ rpc = "version"
  /\ LET dec == Decompress(Slice(inp, inp_pos, Len(inp)))
     IN /\ body' = [body EXCEPT !.read = TRUE, !.decompressed = dec.ok,
                                !.content = dec.content, !.stage = "brotli"]
        /\ rpc' = IF dec.ok THEN "brotli" ELSE "failed"
  /\ inp_pos' = Len(inp)
  /\ UNCHANGED <<tree, tree_in, string_dict, fault, out, wpc, content_no_brotli,
                 local_strings, w_string_dict, m, wlog, inp, corrupted, tree_out>>

\* lines 159-160: the local string table, then string_dict = local + shared
ReadStringTable ==
  /\ rpc = "brotli"
  /\ LET ls == ReadDict(body.content, 0)
     IN /\ body' = [body EXCEPT !.local_strings = ls.strings,
                                !.string_dict = ls.strings \o string_dict,
                                !.dict_end = ls.pos, !.stage = "strings"]
        /\ rpc' = IF ls.ok THEN "strings" ELSE "failed"
  /\ UNCHANGED <<tree, tree_in, string_dict, fault, out, wpc, content_no_brotli,
                 local_strings, w_string_dict, m, wlog, inp, inp_pos, corrupted,
                 tree_out>>

\* lines 163-164: ModelReader(...).read(ty)
ReadModelTable ==
  /\ rpc = "strings"
  /\ LET mr == ReadModel(body.content, body.dict_end, body.string_dict, 1, <<>>)
     IN /\ body' = [body EXCEPT !.m = mr.m, !.model_end = mr.pos, !.stage = "model"]
        /\ rpc' = IF mr.ok THEN "model" ELSE "failed"
  /\ UNCHANGED <<tree, tree_in, string_dict, fault, out, wpc, content_no_brotli,
                 local_strings, w_string_dict, m, wlog, inp, inp_pos, corrupted,
                 tree_out>>

\* lines 189-191: read_piece(ty), then the type check of the tree it returned
ReadTree ==
  /\ rpc = "model"
  /\ LET piece == ReadPiece(body.m, "Script", body.content, body.model_end)
         returns == piece.ok /\ TypeCheck("Script", piece.val)
     IN /\ body' = [body EXCEPT !.pieces = piece.pieces, !.restores = piece.restores,
                                !.piece_end = piece.pos, !.stage = "pieces"]
        /\ tree_out' = IF returns THEN piece.val ELSE NoTree
        /\ rpc' = IF returns THEN "done" ELSE "failed"
  /\ UNCHANGED <<tree, tree_in, string_dict, fault, out, wpc, content_no_brotli,
                 local_strings, w_string_dict, m, wlog, inp, inp_pos, corrupted>>

\* While one of the two programs runs, the other's state stays as constructed.
CodecIdle ==
  /\ tree = NoTree /\ tree_in = NoTree /\ string_dict = <<>> /\ fault = "none"
  /\ CodecFresh

GenIdle ==
  /\ resolver = <<>> /\ gpc = "idle" /\ visited_types = {} /\ stack = <<>>
  /\ interfaces = <<>> /\ alts = <<>> /\ enums = <<>> /\ primitives = <<>>
  /\ frozen_arrays = <<>> /\ model_ids = NoIds /\ next_model_id = 0
  /\ ret = NoRet /\ requeried = FALSE /\ calls = <<>> /\ nvisit = 0

\* cpp_codegen.py on every type graph within the bounds.
InitGen == GenInit /\ CodecIdle

NextGen ==
  \/ Generate /\ UNCHANGED cvars
  \/ VisitSkip /\ UNCHANGED cvars
  \/ VisitInterfaceType /\ UNCHANGED cvars
  \/ VisitAltType /\ UNCHANGED cvars
  \/ VisitEnumType /\ UNCHANGED cvars
  \/ VisitPrimitiveType /\ UNCHANGED cvars
  \/ VisitFrozenArrayType /\ UNCHANGED cvars
  \/ VisitUnmatched /\ UNCHANGED cvars
  \/ VisitChild /\ UNCHANGED cvars
  \/ VisitReturn /\ UNCHANGED cvars
  \/ (\E k \in ModelKeys : GetInsertModelIdCall(k)) /\ UNCHANGED cvars

SpecGen == InitGen /\ [][NextGen]_vars

\* format.py: one write, then one read of what it wrote or of that with one byte
\* changed.
Init == CodecInit /\ GenIdle

Next ==
  \/ WriteFloatFix /\ UNCHANGED gvars
  \/ WriteTypeCheck /\ UNCHANGED gvars
  \/ WriteMagic /\ UNCHANGED gvars
  \/ WriteVersion /\ UNCHANGED gvars
  \/ WriteStrings /\ UNCHANGED gvars
  \/ WriteModel /\ UNCHANGED gvars
  \/ WritePieces /\ UNCHANGED gvars
  \/ WriteCompressed /\ UNCHANGED gvars
  \/ WriteRaises /\ UNCHANGED gvars
  \/ Rewind /\ UNCHANGED gvars
  \/ (\E pos \in CorruptiblePositions, delta \in {1, 255} : Corrupt(pos, delta)) /\ UNCHANGED gvars
  \/ ReadMagic /\ UNCHANGED gvars
  \/ ReadVersion /\ UNCHANGED gvars
  \/ ReadBrotli /\ UNCHANGED gvars
  \/ ReadStringTable /\ UNCHANGED gvars
  \/ ReadModelTable /\ UNCHANGED gvars
  \/ ReadTree /\ UNCHANGED gvars

Spec == Init /\ [][Next]_vars

(***************************************************************************)
(* cpp_codegen.py: properties of the walker and of the id allocation.      *)
(***************************************************************************)
CallbackOfKind(kind) ==
  CASE kind = "TyInterface" -> "visit_interface_type"
    [] kind = "Alt" -> "visit_alt_type"
    [] kind = "TyEnum" -> "visit_enum_type"
    [] kind = "TyPrimitive" -> "visit_primitive_type"
    [] kind = "TyFrozenArray" -> "visit_frozen_array_type"
    [] OTHER -> "none"

CallbackCount(ty) == Cardinality({i \in DOMAIN calls : calls[i].ty = ty})

\* The types in depth-first pre-order from a root, each once, children in declared
\* order: the traversal section 4.3 of the specification describes.
RECURSIVE PreOrder(_, _, _)
PreOrder(schema, todo, seen) ==
  IF todo = <<>> THEN <<>>
  ELSE IF todo[1] \in Range(seen) THEN PreOrder(schema, Tail(todo), seen)
  ELSE <<todo[1]>> \o
       PreOrder(schema, Children(schema, todo[1]) \o Tail(todo), Append(seen, todo[1]))

RECURSIVE DropKind(_, _, _)
DropKind(schema, tys, kind) ==
  IF tys = <<>> THEN <<>>
  ELSE (IF schema[tys[1]].kind = kind THEN <<>> ELSE <<tys[1]>>)
       \o DropKind(schema, Tail(tys), kind)

\* visit stops: it never starts more activations than one per edge of the graph
\* plus the root's, and until it is done some step of it can be taken.
WalkerTerminates ==
  /\ nvisit <= 1 + EdgeCount(resolver)
  /\ Len(stack) <= Cardinality(visited_types) + 1
  /\ gpc = "visiting" => stack # <<>> /\ ENABLED GenStep

\* The callback of a type has run before visit loops over the type's children.
CallbackBeforeChildren ==
  \A f \in DOMAIN stack :
    stack[f].i >= 1 =>
      /\ stack[f].ty \in visited_types
      /\ \E j \in DOMAIN calls : calls[j].ty = stack[f].ty

\* C9 as stated: at the end of visit every type reachable from the root, the None
\* type included, has had its visit_* callback run exactly once, and no other type
\* has had one.
C9_EveryReachableTypeCalledOnce ==
  gpc = "done" =>
    \A t \in TypeIds : CallbackCount(t) = (IF t \in Reachable(resolver) THEN 1 ELSE 0)

\* C9 amended: visit terminates on every finite type graph, cyclic ones included;
\* it marks exactly the reachable types visited; it runs the visit_* callback of
\* each reachable interface, alternation, enumeration, primitive and frozen array
\* exactly once, of no unreachable type, and none for a reachable None type
\* (idl.TyNone); callbacks run in depth-first pre-order with attributes and
\* variants in declared order, each before its type's children are visited.
C9_WalkerVisitsOnce ==
  /\ WalkerTerminates
  /\ CallbackBeforeChildren
  /\ \A j \in DOMAIN calls : calls[j].cb = CallbackOfKind(resolver[calls[j].ty].kind)
  /\ gpc = "done" =>
       /\ visited_types = Reachable(resolver)
       /\ \A t \in TypeIds :
            CallbackCount(t) =
              (IF t \in Reachable(resolver) /\ resolver[t].kind # "TyNone" THEN 1 ELSE 0)
       /\ [j \in DOMAIN calls |-> calls[j].ty]
            = DropKind(resolver, PreOrder(resolver, <<Script>>, <<>>), "TyNone")

\* C9 witness: a finished walk of a cyclic graph (Script -> alternation -> Script)
\* that reached the None type, skipped an already visited type, and left a type
\* unreachable.
C9_Witness ==
  /\ gpc = "done"
  /\ resolver[2].kind = "Alt" /\ Script \in Range(resolver[2].tys)
  /\ {2, NoneId} \subseteq visited_types
  /\ nvisit > Cardinality(visited_types)
  /\ TypeIds \ visited_types # {}

\* The keys the callbacks ask ids for, in the order the callbacks ran.
RECURSIVE KeysOfCalls(_)
KeysOfCalls(cs) ==
  IF cs = <<>> THEN <<>>
  ELSE LET d == resolver[cs[1].ty] IN
       (CASE cs[1].cb = "visit_interface_type" ->
               [i \in DOMAIN d.attrs |-> <<cs[1].ty, d.attrs[i].name>>]
          [] cs[1].cb = "visit_frozen_array_type" -> <<<<cs[1].ty, ListLength>>>>
          [] OTHER -> <<>>)
       \o KeysOfCalls(Tail(cs))

ReachableKeys ==
  UNION {{<<t, resolver[t].attrs[i].name>> : i \in DOMAIN resolver[t].attrs}
           : t \in {u \in Reachable(resolver) : resolver[u].kind = "TyInterface"}}
  \cup {<<t, ListLength>> : t \in {u \in Reachable(resolver) : resolver[u].kind = "TyFrozenArray"}}

\* C10: after generate, model_ids maps exactly the (interface, attribute name) and
\* (frozen array, 'list-length') keys reachable from Script; distinct keys have
\* distinct ids; the ids are 0 .. next_model_id-1 without a gap, in first-use order
\* of the traversal; asking again for an existing key returns its id and leaves
\* next_model_id and model_ids as they were.
C10_ModelIdAllocation ==
  /\ \A k1, k2 \in DOMAIN model_ids : k1 # k2 => model_ids[k1] # model_ids[k2]
  /\ {model_ids[k] : k \in DOMAIN model_ids} = 0..(next_model_id - 1)
  /\ (gpc = "done" /\ ~requeried) =>
       /\ DOMAIN model_ids = ReachableKeys
       /\ Len(KeysOfCalls(calls)) = next_model_id
       /\ \A i \in DOMAIN KeysOfCalls(calls) : model_ids[KeysOfCalls(calls)[i]] = i - 1
       /\ \A i \in DOMAIN interfaces : \A j \in DOMAIN interfaces[i].fields :
            interfaces[i].fields[j].model_id
              = model_ids[<<interfaces[i].ty, interfaces[i].fields[j].name>>]
       /\ \A i \in DOMAIN frozen_arrays :
            frozen_arrays[i].model_id = model_ids[<<frozen_arrays[i].ty, ListLength>>]
  /\ (requeried /\ ret.present) =>
       /\ ret.model_id = ret.ids_before[ret.k]
       /\ next_model_id = ret.next_before
       /\ model_ids = ret.ids_before
  /\ (requeried /\ ~ret.present) =>
       /\ ret.model_id = ret.next_before
       /\ next_model_id = ret.next_before + 1

\* C10 witness: generate allocated ids for attributes and for an array length, and
\* a later request for an existing key with a non-zero id was answered.
C10_Witness ==
  /\ gpc = "done" /\ requeried /\ ret.present /\ ret.model_id > 0
  /\ \E k \in DOMAIN model_ids : k[2] = ListLength
  /\ next_model_id >= 3

(***************************************************************************)
(* format.py: properties of write and read.                                *)
(***************************************************************************)
WriteDone == wpc = "compressed"

ReadOver == rpc \in {"done", "failed"}

\* The section of this name that write logged, if it has.
HasSection(name) == \E i \in DOMAIN wlog : wlog[i].section = name

Section(name) == wlog[CHOOSE i \in DOMAIN wlog : wlog[i].section = name]

\* C1: read(write(T)) with the same shared dictionary returns T after the
\* FloatFixer coercion, for every tree T that conforms to Script: read of the
\* stream write produced does not fail, and the tree it returns is FloatFix(T).
C1_RoundTrip ==
  ~corrupted /\ ReadOver =>
    /\ rpc = "done"
    /\ tree_out = FloatFix("Script", tree_in)

\* A round trip of a tree with an int in a double slot, a lazy list inside a lazy
\* list, and a string the shared dictionary lacks.
C1_Witness ==
  /\ ~corrupted /\ rpc = "done"
  /\ tree_out # tree_in
  /\ \E i \in DOMAIN body.pieces : body.pieces[i].count > 0 /\ body.pieces[i].start > body.model_end
  /\ local_strings # <<>>

HeaderLen == Len(MAGIC_HEADER) + Len(FORMAT_VERSION)

MagicDiffers == Len(inp) >= HeaderLen /\ Slice(inp, 0, Len(MAGIC_HEADER)) # MAGIC_HEADER

VersionDiffers ==
  Len(inp) >= HeaderLen /\ Slice(inp, Len(MAGIC_HEADER), HeaderLen) # FORMAT_VERSION

\* C2: when a magic byte or the version byte of the input differs, read fails, and
\* it has then consumed no byte after the 9-byte header and has neither read,
\* decompressed nor parsed anything of the brotli payload.
C2_HeaderRejected ==
  /\ MagicDiffers /\ rpc \notin {"idle", "start"} =>
       rpc = "failed" /\ inp_pos <= HeaderLen /\ body = NoBody /\ tree_out = NoTree
  /\ VersionDiffers /\ rpc \notin {"idle", "start", "magic"} =>
       rpc = "failed" /\ inp_pos <= HeaderLen /\ body = NoBody /\ tree_out = NoTree

\* read has rejected a stream whose first byte was changed.
C2_Witness == rpc = "failed" /\ inp # <<>> /\ inp[1] # MAGIC_HEADER[1] /\ ~body.read


\* C3: every lazy part is decoded from lazy_offsets[i]; on a stream write produced
\* the position after it is lazy_offsets[i+1] for every part at every depth and
\* read does not fail; on any stream, a part whose end differs from the declared
\* one makes read fail.
C3_LazyBoundary ==
  body.stage = "pieces" =>
    /\ \A i \in DOMAIN body.restores :
         LET r == body.restores[i] IN
         /\ \E j \in DOMAIN body.pieces : body.pieces[j].start = r.from
         /\ ~corrupted => r.tell = r.declared
         /\ r.tell # r.declared => rpc = "failed"
    /\ ~corrupted => rpc = "done"

\* A changed size: the part ended at a place other than the declared one, and read
\* failed.
C3_Witness ==
  /\ corrupted /\ rpc = "failed"
  /\ \E i \in DOMAIN body.restores : body.restores[i].tell # body.restores[i].declared


StrictlySorted(seq) == \A i \in 1..(Len(seq) - 1) : StrLess(seq[i], seq[i + 1])

\* C4: the local string table is the strings of the tree minus the shared
\* dictionary, disjoint from it and written sorted; every string of the tree has an
\* index in local + shared; read builds the same list from the table it reads and
\* the shared dictionary.
C4_DictionarySubtraction ==
  /\ HasSection("strings") =>
       /\ Range(local_strings) = CollectStrings("Script", tree) \ Range(string_dict)
       /\ Range(local_strings) \cap Range(string_dict) = {}
       /\ StrictlySorted(local_strings)
       /\ w_string_dict = local_strings \o string_dict
       /\ \A str \in CollectStrings("Script", tree) : IndexOf(w_string_dict, str) > 0
       /\ Slice(content_no_brotli, Section("strings").from, Section("strings").to)
            = WriteDict(local_strings)
  /\ rpc \in {"strings", "model", "done"} =>
       /\ body.local_strings = local_strings
       /\ body.string_dict = w_string_dict

\* A tree with a string the shared dictionary holds and one it lacks, written and
\* read back.
C4_Witness ==
  /\ rpc = "done"
  /\ local_strings # <<>>
  /\ CollectStrings("Script", tree) \cap Range(string_dict) # {}

\* The sections in the order write produces them, with the stream each goes to.
SectionOrder ==
  <<<<"out", "magic">>, <<"out", "version">>, <<"content", "strings">>,
    <<"content", "model">>, <<"content", "pieces">>, <<"out", "brotli">>>>

\* The sections of a stream logged before the i-th entry of the log.
Earlier(stream, i) == {j \in 1..(i - 1) : wlog[j].stream = stream}

Latest(S) == CHOOSE j \in S : \A k \in S : k <= j

\* Each stream's sections lie end to end from its start.
Contiguous(stream) ==
  \A i \in DOMAIN wlog :
    wlog[i].stream = stream =>
      /\ wlog[i].from <= wlog[i].to
      /\ wlog[i].from = (IF Earlier(stream, i) = {} THEN 0
                         ELSE wlog[Latest(Earlier(stream, i))].to)

\* C5: write emits magic, version, then the compression of a frame made of the
\* local string table, the model, and the tree with its lazy index and parts, in
\* this order; the model is complete before the first tree token; read consumes the
\* sections in the same order.
C5_SectionOrdering ==
  /\ Len(wlog) <= Len(SectionOrder)
  /\ \A i \in DOMAIN wlog : <<wlog[i].stream, wlog[i].section>> = SectionOrder[i]
  /\ Contiguous("out") /\ Contiguous("content")
  /\ HasSection("pieces") =>
       /\ Slice(content_no_brotli, Section("model").from, Section("model").to)
            = ModelBytes(m, w_string_dict)
       /\ Section("pieces").from = Section("model").to
       /\ Section("pieces").to = Len(content_no_brotli)
  /\ WriteDone =>
       out = MAGIC_HEADER \o FORMAT_VERSION \o Compress(content_no_brotli)
  /\ rpc \in {"idle", "start", "magic", "version"} => body = NoBody
  /\ rpc = "magic" => inp_pos = Len(MAGIC_HEADER)
  /\ rpc = "version" => inp_pos = HeaderLen
  /\ rpc = "brotli" =>
       /\ ~corrupted => body.content = content_no_brotli
       /\ body.dict_end = 0 /\ body.model_end = 0 /\ body.pieces = <<>>
  /\ rpc \in {"strings", "model", "done"} => body.dict_end = Section("strings").to
  /\ rpc = "strings" => body.model_end = 0 /\ body.pieces = <<>>
  /\ rpc \in {"model", "done"} => body.model_end = Section("model").to /\ body.m = m
  /\ rpc = "model" => body.pieces = <<>>
  /\ rpc = "done" /\ ~corrupted => body.piece_end = Section("pieces").to

\* write and read both ran to the end on a tree with a lazy part that has bytes.
C5_Witness ==
  /\ Len(wlog) = Len(SectionOrder) /\ rpc = "done" /\ ~corrupted
  /\ Section("strings").to > 0
  /\ Section("model").to > Section("model").from
  /\ Section("pieces").to > Section("pieces").from

\* C6: whenever write fails, the caller's output stream holds no bytes written by
\* the failed call.
C6_PartialOutputsDiscarded == wpc = "failed" => out = <<>>

\* Model building raised after the header was written: out keeps the 9 bytes.
C6_Witness == wpc = "failed" /\ fault = "model" /\ out = MAGIC_HEADER \o FORMAT_VERSION



\* The bytes of one write_piece call, parsed: the main body of the node with its
\* lazy values taken out, the count of those values, one size each, and then, end
\* to end and filling the rest, one well-formed piece of that size per value.
RECURSIVE PieceLayoutOK(_, _, _, _)
PieceLayoutOK(mm, ty, node, bytes) ==
  LET lazy_parts == Extract(ty, node, <<>>)
      main == Encode(mm, ty, lazy_parts.val)
      count == ReadVarint(bytes, Len(main))
      sizes == ReadVarints(bytes, count.pos, count.value, <<>>)
  IN /\ Len(bytes) >= Len(main)
     /\ Slice(bytes, 0, Len(main)) = main
     /\ count.ok /\ count.value = Len(lazy_parts.lazies)
     /\ sizes.ok /\ SumSeq(sizes.values) = Len(bytes) - sizes.pos
     /\ \A k \in DOMAIN lazy_parts.lazies :
          PieceLayoutOK(mm, lazy_parts.lazies[k].attr.resolved_ty,
                        lazy_parts.lazies[k].part,
                        Slice(bytes, sizes.pos + SumSeq(SubSeq(sizes.values, 1, k - 1)),
                              sizes.pos + SumSeq(SubSeq(sizes.values, 1, k))))

C8_DecoderEndPosition ==
  /\ \A i \in DOMAIN body.pieces :
       LET p == body.pieces[i] IN
       /\ Len(p.sizes) = p.count
       /\ Len(p.lazy_offsets) = p.count + 1
       /\ \A k \in 1..(p.count + 1) :
            p.lazy_offsets[k] = p.tell + SumSeq(SubSeq(p.sizes, 1, k - 1))
       /\ p.end = p.lazy_offsets[p.count + 1]
       /\ p.count = 0 => p.end = p.tell
  /\ rpc = "done" => body.piece_end = body.pieces[Len(body.pieces)].end

\* A piece that declared more lazy values than it had placeholders returned past
\* their bytes.
C8_Witness ==
  \E i \in DOMAIN body.pieces :
    body.pieces[i].placeholders < body.pieces[i].count
      /\ body.pieces[i].end > body.pieces[i].tell


=============================================================================
